---- MODULE Spec2Model ----
(***************************************************************************)
(* Todo API of nextjs-dovelop: the route handlers GET/POST /api/todos and  *)
(* PATCH/DELETE /api/todos/[id], running against the Todo table through    *)
(* the Prisma client.                                                      *)
(*                                                                         *)
(* A text is a sequence of one-character strings.  A handler runs in two   *)
(* steps, split at its single "await prisma.todo.*": the first step parses *)
(* and validates the request and either responds or issues the store call, *)
(* the second step is the store call together with the rest of the handler.*)
(*                                                                         *)
(* Four specifications share the handlers' definitions:                    *)
(*   Spec / FairSpec  one request at a time, every body and id text;       *)
(*   OverlapSpec      requests waiting on the store at the same time;      *)
(*   HandleSpec       lib/prisma, the module that exports the client;      *)
(*   PageSpec         the Todo page (Home) as the handlers' only client.   *)
(***************************************************************************)
EXTENDS Integers, Sequences, FiniteSets, TLC

\* ------------------------------------------------------------ bounds ----
MaxId == 2          \* rows the table may ever have been given
MaxClock == 1       \* readings of now() run from 0 to MaxClock
MaxInflight == 1    \* requests that may wait on the store at the same time

Slots == 1..MaxInflight

\* ------------------------------------------------- JavaScript values ----
Undefined == [type |-> "undefined"]
Null == [type |-> "null"]
Bool(b) == [type |-> "boolean", bool |-> b]
Num(n) == [type |-> "number", num |-> n]
Str(s) == [type |-> "string", str |-> s]
Obj(title, completed) == [type |-> "object", title |-> title, completed |-> completed]

\* the request body: text that JSON.parse rejects, or a JSON value
Unparsable == [kind |-> "unparsable"]
Parsed(v) == [kind |-> "json", value |-> v]
NoBody == [kind |-> "none"]
NoId == <<"/">>

\* the number NaN, apart from the numbers Num(n)
NaN == [type |-> "NaN"]
isNaN(x) == x.type = "NaN"

typeof(v) ==
    CASE v.type = "undefined" -> "undefined"
      [] v.type = "boolean" -> "boolean"
      [] v.type = "number" -> "number"
      [] v.type = "string" -> "string"
      [] OTHER -> "object"

\* ToBoolean, as the operator ! applies it
Truthy(v) ==
    CASE v.type = "undefined" -> FALSE
      [] v.type = "null" -> FALSE
      [] v.type = "boolean" -> v.bool
      [] v.type = "number" -> v.num # 0
      [] v.type = "string" -> v.str # <<>>
      [] OTHER -> TRUE

\* const { name } = v throws a TypeError when v is null or undefined
Destructurable(v) == v.type \notin {"null", "undefined"}

\* the value const { name } = v binds: a missing property is undefined
Prop(v, name) ==
    IF v.type = "object"
    THEN (IF name = "title" THEN v.title ELSE v.completed)
    ELSE Undefined

\* ------------------------------------------------------------- texts ----
\* the space stands for every character trim() and parseInt() skip
WhiteSpace == {" "}
Digits == {"0", "1", "2", "3", "4", "5", "6", "7", "8", "9"}

DigitValue(c) ==
    CASE c = "0" -> 0 [] c = "1" -> 1 [] c = "2" -> 2 [] c = "3" -> 3
      [] c = "4" -> 4 [] c = "5" -> 5 [] c = "6" -> 6 [] c = "7" -> 7
      [] c = "8" -> 8 [] c = "9" -> 9

RECURSIVE TrimStart(_)
TrimStart(s) ==
    IF s # <<>> /\ Head(s) \in WhiteSpace THEN TrimStart(Tail(s)) ELSE s

RECURSIVE TrimEnd(_)
TrimEnd(s) ==
    IF s # <<>> /\ s[Len(s)] \in WhiteSpace
    THEN TrimEnd(SubSeq(s, 1, Len(s) - 1))
    ELSE s

\* String.prototype.trim
trim(s) == TrimEnd(TrimStart(s))

\* the longest prefix of s made of digits
RECURSIVE DigitPrefix(_)
DigitPrefix(s) ==
    IF s # <<>> /\ Head(s) \in Digits
    THEN <<Head(s)>> \o DigitPrefix(Tail(s))
    ELSE <<>>

RECURSIVE DecimalValue(_)
DecimalValue(d) ==
    IF d = <<>> THEN 0
    ELSE 10 * DecimalValue(SubSeq(d, 1, Len(d) - 1)) + DigitValue(d[Len(d)])

\* parseInt(s) with no radix: leading white space is skipped, a sign is
\* read, then the longest run of digits; whatever follows is ignored, and
\* NaN is the result only when no digit was read.  (No text of IdTexts
\* starts with 0x, so the hexadecimal case does not arise.)
parseInt(s) ==
    LET t == TrimStart(s)
        signed == t # <<>> /\ Head(t) \in {"-", "+"}
        u == IF signed THEN Tail(t) ELSE t
        d == DigitPrefix(u)
    IN  IF d = <<>> THEN NaN
        ELSE IF signed /\ Head(t) = "-" THEN Num(0 - DecimalValue(d))
        ELSE Num(DecimalValue(d))

\* ---------------------------------------------------------- requests ----
\* the title values a POST body may carry, and the bodies around them
TitleTexts == {<<>>, <<" ">>, <<"a">>, <<" ", "a">>}
PostBodies ==
    {Unparsable, Parsed(Null), Parsed(Num(7)), Parsed(Obj(Undefined, Undefined)),
     Parsed(Obj(Num(1), Undefined))}
    \cup {Parsed(Obj(Str(t), Undefined)) : t \in TitleTexts}

\* the completed values a PATCH body may carry
PatchBodies ==
    {Unparsable, Parsed(Null), Parsed(Obj(Undefined, Undefined)),
     Parsed(Obj(Undefined, Str(<<"t", "r", "u", "e">>)))}
    \cup {Parsed(Obj(Undefined, Bool(b))) : b \in BOOLEAN}

\* the [id] segment of the path
IdTexts == {<<"1">>, <<"2">>, <<"a">>, <<"1", "a">>, <<"1", ".", "5">>}

\* ----------------------------------------------------------- responses --
\* NextResponse.json(body, { status }), status 200 when not given
Json(body, status) == [status |-> status, body |-> body]
ErrorBody(msg) == [type |-> "error", error |-> msg]
TodoBody(row) == [type |-> "todo", todo |-> row]
ListBody(rows) == [type |-> "list", list |-> rows]
SuccessBody == [type |-> "success", success |-> TRUE]

\* what the code of a handler before its await comes to
Respond(res) == [tag |-> "respond", res |-> res]
Call(c) == [tag |-> "call", call |-> c]
Throw == [tag |-> "throw"]

\* ------------------------------------------------------------- state ----
VARIABLES
    todos,      \* the Todo table: a set of rows
    nextId,     \* the table's auto-increment counter
    clock,      \* now()
    inflight,   \* per slot: the request waiting on its store call, or None
    last,       \* the response sent last, with its request
    deleted,    \* history: ids of the rows a DELETE has removed
    patched,    \* history: for each id whose last store call was an update
                \*          that succeeded, the flag it set
    seen,       \* history: id -> the highest id the table had given out
                \*          when the POST that created the row was received
    NODE_ENV,           \* process.env.NODE_ENV
    globalForPrisma,    \* globalThis.prisma: a client, or NoClient
    prisma,             \* the binding lib/prisma exports, NoClient before
                        \* the module is evaluated
    built,              \* history: clients constructed in this process
    evals,              \* history: evaluations of lib/prisma
    used,               \* history: per handler, the client it used last
    pageTodos,          \* the page's useState todos: the list it shows
    newTodo,            \* the page's useState newTodo: the input's text
    loading,            \* the page's useState loading
    deletingId,         \* the page's useState deletingId, or NoDeleting
    runs                \* per run slot: a call of addTodo, toggleTodo,
                        \* deleteTodo or the mount's fetchTodos that has not
                        \* returned yet, or None

api == <<todos, nextId, clock, inflight, last, deleted, patched, seen>>
handle == <<NODE_ENV, globalForPrisma, prisma, built, evals, used>>
page == <<pageTodos, newTodo, loading, deletingId, runs>>
vars == <<api, handle, page>>

\* what a specification of the handlers leaves alone
outside == <<handle, page>>

None == [kind |-> "none"]

\* ------------------------------------------- lib/prisma, the client ----
MaxEvals == 3       \* evaluations of lib/prisma in one process

\* globalThis.prisma is undefined, or the binding is not yet initialised;
\* the clients of a process are numbered 1, 2, ... as they are constructed
NoClient == 0

Modes == {"development", "test", "production"}
Handlers == {"GET", "POST", "PATCH", "DELETE"}

\* a ?? b
Coalesce(a, b) == IF a # NoClient THEN a ELSE b

\* globalThis.prisma after
\* if (process.env.NODE_ENV !== 'production') globalForPrisma.prisma = prisma,
\* with the guard left out of the assignment's way: nothing is stored
RetainedNever(env, held, client) == held
Retained(env, held, client) == IF env # "production" THEN client ELSE held

\* lib/prisma is evaluated, for the first time or again: the module body
\* runs from top to bottom
Evaluate ==
    /\ evals < MaxEvals
    /\ evals' = evals + 1
    /\ prisma' = Coalesce(globalForPrisma, built + 1)
    /\ built' = IF globalForPrisma # NoClient THEN built ELSE built + 1
    /\ globalForPrisma' = Retained(NODE_ENV, globalForPrisma, prisma')
    /\ UNCHANGED <<NODE_ENV, used, api, page>>

\* a handler reaches its prisma.todo.* call: it reads the binding of the
\* module its route file imported
Access(h) ==
    /\ prisma # NoClient
    /\ used' = [used EXCEPT ![h] = prisma]
    /\ UNCHANGED <<NODE_ENV, globalForPrisma, prisma, built, evals, api, page>>

\* the process has started and nothing has imported lib/prisma yet
Unloaded ==
    /\ globalForPrisma = NoClient
    /\ prisma = NoClient
    /\ built = 0
    /\ evals = 0
    /\ used = [h \in Handlers |-> NoClient]

\* a development process whose route files have imported lib/prisma once
Loaded ==
    /\ NODE_ENV = "development"
    /\ globalForPrisma = 1
    /\ prisma = 1
    /\ built = 1
    /\ evals = 1
    /\ used = [h \in Handlers |-> NoClient]

\* --------------------------------------------------- the Todo page ----
MaxRuns == 2        \* calls of the page's functions running at once

RunSlots == 1..MaxRuns

\* useState<number | null>(null): no row is being deleted
NoDeleting == 0

\* no browser has the page open
Unmounted ==
    /\ pageTodos = <<>>
    /\ newTodo = <<>>
    /\ loading = FALSE
    /\ deletingId = NoDeleting
    /\ runs = [k \in RunSlots |-> None]

\* ---------------------------------------------------- the Todo table ----
Row(id, title, completed, createdAt, updatedAt) ==
    [id |-> id, title |-> title, completed |-> completed,
     createdAt |-> createdAt, updatedAt |-> updatedAt]

Ids(rows) == {r.id : r \in rows}
\* where: { id } matching whatever row comes first
RowOfAny(rows, id) == CHOOSE r \in rows : TRUE
RowOf(rows, id) == CHOOSE r \in rows : r.id = id

\* prisma.todo.findMany({ orderBy: { createdAt: 'desc' } }): every row once,
\* createdAt never rising along the list; rows of equal createdAt come in
\* an order the query does not fix
findMany(rows) ==
    LET n == Cardinality(rows)
    IN  {l \in [1..n -> rows] :
            /\ \A i, j \in 1..n : i # j => l[i] # l[j]
            /\ \A i, j \in 1..n : i < j => l[i].createdAt >= l[j].createdAt}

\* prisma.todo.create({ data: { title } }): id @default(autoincrement()),
\* completed @default(false), createdAt @default(now()), updatedAt @updatedAt
create(id, title, now) == Row(id, title, FALSE, now, now)

\* prisma.todo.update({ where: { id }, data: { completed } }) on the row
\* found: completed is set and @updatedAt takes now()
update(row, completed, now) ==
    [row EXCEPT !.completed = completed, !.updatedAt = now]

\* update and delete reject when where matches no row
Found(rows, id) == id \in Ids(rows)

\* --------------------------------------------------------- handlers -----
\* GET's catch with { status: 500 } left out
GETCatchNoStatus == Json(ErrorBody("Failed to fetch todos"), 200)
GETCatch == Json(ErrorBody("Failed to fetch todos"), 500)

POSTCatch == Json(ErrorBody("Failed to create todo"), 500)

\* PATCH's catch telling a row that is not there from a failure
PATCHCatchNotFound == Json(ErrorBody("Todo not found"), 404)
\* PATCH's catch answering as the id check does
PATCHCatchAsInvalid == Json(ErrorBody("Invalid todo ID"), 400)
PATCHCatch == Json(ErrorBody("Failed to update todo"), 500)

\* DELETE's catch taking a row that is not there for a row deleted
DELETECatchAsDone == Json(SuccessBody, 200)
DELETECatch == Json(ErrorBody("Failed to delete todo"), 500)

GETThen(list) == Json(ListBody(list), 200)
POSTThen(todo) == Json(TodoBody(todo), 201)
PATCHThen(todo) == Json(TodoBody(todo), 200)
DELETEThen == Json(SuccessBody, 200)

\* try { ... } catch: what was thrown becomes the handler's 500 response
Try(r, catch) == IF r.tag = "throw" THEN Respond(catch) ELSE r

GETBegin == Call([op |-> "findMany"])

\* POST storing the title as sent, without trim()
POSTBeginUntrimmed(body) ==
    IF body.kind # "json" THEN Throw
    ELSE IF ~Destructurable(body.value) THEN Throw
    ELSE LET title == Prop(body.value, "title")
         IN  IF ~Truthy(title) \/ typeof(title) # "string"
             THEN Respond(Json(ErrorBody("Title is required"), 400))
             ELSE Call([op |-> "create", title |-> title.str])

POSTBegin(body) ==
    IF body.kind # "json" THEN Throw                  \* await request.json()
    ELSE IF ~Destructurable(body.value) THEN Throw    \* const { title } = body
    ELSE LET title == Prop(body.value, "title")
         IN  IF ~Truthy(title) \/ typeof(title) # "string"
             THEN Respond(Json(ErrorBody("Title is required"), 400))
             ELSE Call([op |-> "create", title |-> trim(title.str)])

\* PATCH flipping the flag instead of setting it
PATCHBeginFlipped(id, body) ==
    LET todoId == parseInt(id)
    IN  IF isNaN(todoId)
        THEN Respond(Json(ErrorBody("Invalid todo ID"), 400))
        ELSE IF body.kind # "json" THEN Throw
        ELSE IF ~Destructurable(body.value) THEN Throw
        ELSE LET completed == Prop(body.value, "completed")
             IN  IF typeof(completed) # "boolean"
                 THEN Respond(Json(ErrorBody("Completed must be a boolean"), 400))
                 ELSE Call([op |-> "update", id |-> todoId.num,
                            completed |-> ~completed.bool])

PATCHBegin(id, body) ==
    LET todoId == parseInt(id)
    IN  IF isNaN(todoId)
        THEN Respond(Json(ErrorBody("Invalid todo ID"), 400))
        ELSE IF body.kind # "json" THEN Throw
        ELSE IF ~Destructurable(body.value) THEN Throw
        ELSE LET completed == Prop(body.value, "completed")
             IN  IF typeof(completed) # "boolean"
                 THEN Respond(Json(ErrorBody("Completed must be a boolean"), 400))
                 ELSE Call([op |-> "update", id |-> todoId.num,
                            completed |-> completed.bool])

\* DELETE looking for the row before its store call, and answering 404 by
\* what it saw
DELETEBeginChecked(id) ==
    LET todoId == parseInt(id)
    IN  IF isNaN(todoId)
        THEN Respond(Json(ErrorBody("Invalid todo ID"), 400))
        ELSE IF todoId.num \notin Ids(todos)
        THEN Respond(Json(ErrorBody("Todo not found"), 404))
        ELSE Call([op |-> "delete", id |-> todoId.num])

DELETEBegin(id) ==
    LET todoId == parseInt(id)
    IN  IF isNaN(todoId)
        THEN Respond(Json(ErrorBody("Invalid todo ID"), 400))
        ELSE Call([op |-> "delete", id |-> todoId.num])

\* ------------------------------------------------------------- steps ----
Request(kind, id, body) == [kind |-> kind, id |-> id, body |-> body]

\* a response goes out: calls counts the store calls the request made,
\* fault tells that the store itself failed the call, and after tells what
\* the response follows (history)
Sent(req, res, calls, fault, after) ==
    [kind |-> "sent", req |-> req, res |-> res, calls |-> calls, fault |-> fault,
     after |-> after]

PendingCreates ==
    Cardinality({s \in DOMAIN inflight : inflight[s] # None /\ inflight[s].call.op = "create"})

\* the handler's code up to its store call: it answers, or it waits in slot s
Begin(s, req, r) ==
    /\ IF r.tag = "call"
       THEN /\ r.call.op = "create" => nextId + PendingCreates <= MaxId
            /\ inflight' = [inflight EXCEPT ![s] =
                               [kind |-> "waiting", req |-> req, call |-> r.call,
                                seen |-> nextId - 1]]
            /\ last' = last
       ELSE /\ last' = Sent(req, r.res, 0, FALSE, None)
            /\ inflight' = inflight
    /\ UNCHANGED <<todos, nextId, clock, deleted, patched, seen>>

GET(s) ==
    /\ inflight[s] = None
    /\ UNCHANGED outside
    /\ Begin(s, Request("GET", NoId, NoBody), Try(GETBegin, GETCatch))

POST(s, body) ==
    /\ inflight[s] = None
    /\ UNCHANGED outside
    /\ Begin(s, Request("POST", NoId, body), Try(POSTBegin(body), POSTCatch))

PATCH(s, id, body) ==
    /\ inflight[s] = None
    /\ UNCHANGED outside
    /\ Begin(s, Request("PATCH", id, body), Try(PATCHBegin(id, body), PATCHCatch))

DELETE(s, id) ==
    /\ inflight[s] = None
    /\ UNCHANGED outside
    /\ Begin(s, Request("DELETE", id, NoBody), Try(DELETEBegin(id), DELETECatch))

Waiting(s, op) == inflight[s] # None /\ inflight[s].call.op = op

Finish(s, res, fault, after) ==
    /\ last' = Sent(inflight[s].req, res, 1, fault, after)
    /\ inflight' = [inflight EXCEPT ![s] = None]

\* history: the response sent last is the 201 of a POST, and what it created
AfterCreate ==
    IF last.kind = "sent" /\ last.req.kind = "POST" /\ last.res.status = 201
    THEN [kind |-> "create", id |-> last.res.body.todo.id,
          text |-> last.req.body.value.title.str]
    ELSE None

\* the flag a PATCH request asks for, once PATCHBegin has let it through
Flag(req) == req.body.value.completed.bool

\* history of a store call on id: gone tells that a DELETE had removed the
\* row, same that the store call on id before this one was the update of a
\* PATCH asking for the same flag, and succeeded
AfterCall(id, same) ==
    [kind |-> "call", id |-> id, gone |-> id \in deleted, same |-> same]
AfterUpdate(id, req) ==
    AfterCall(id, \E p \in patched : p.id = id /\ p.completed = Flag(req))
AfterDelete(id) == AfterCall(id, FALSE)

\* the history of the last store call on each id
Forget(id) == {p \in patched : p.id # id}
Patched(id, completed) == [id |-> id, completed |-> completed]

\* await prisma.todo.findMany(...) and the rest of GET
GETFindMany(s, fault) ==
    /\ Waiting(s, "findMany")
    /\ IF fault
       THEN Finish(s, GETCatch, TRUE, AfterCreate)
       ELSE \E list \in findMany(todos) : Finish(s, GETThen(list), FALSE, AfterCreate)
    /\ UNCHANGED <<todos, nextId, clock, deleted, patched, seen, outside>>

\* POST numbering the new row by the rows the table holds
POSTCreateCounting(s, fault) ==
    /\ Waiting(s, "create")
    /\ IF fault
       THEN /\ Finish(s, POSTCatch, TRUE, None)
            /\ UNCHANGED <<todos, nextId, seen>>
       ELSE LET todo == create(Cardinality(todos) + 1, inflight[s].call.title, clock)
            IN  /\ todos' = todos \cup {todo}
                /\ nextId' = nextId + 1
                /\ seen' = Append(seen, inflight[s].seen)
                /\ Finish(s, POSTThen(todo), FALSE, None)
    /\ UNCHANGED <<clock, deleted, patched, outside>>

\* await prisma.todo.create(...) and the rest of POST
POSTCreate(s, fault) ==
    /\ Waiting(s, "create")
    /\ IF fault
       THEN /\ Finish(s, POSTCatch, TRUE, None)
            /\ UNCHANGED <<todos, nextId, seen>>
       ELSE LET todo == create(nextId, inflight[s].call.title, clock)
            IN  /\ todos' = todos \cup {todo}
                /\ nextId' = nextId + 1
                /\ seen' = Append(seen, inflight[s].seen)
                /\ Finish(s, POSTThen(todo), FALSE, None)
    /\ UNCHANGED <<clock, deleted, patched, outside>>

\* PATCH writing the row anew, createdAt with it
PATCHUpdateRecreating(s, fault) ==
    /\ Waiting(s, "update")
    /\ LET c == inflight[s].call
       IN  IF fault \/ ~Found(todos, c.id)
           THEN /\ Finish(s, PATCHCatch, fault, AfterUpdate(c.id, inflight[s].req))
                /\ patched' = Forget(c.id)
                /\ todos' = todos
           ELSE LET todo == create(c.id, RowOf(todos, c.id).title, clock)
                IN  /\ todos' = (todos \ {RowOf(todos, c.id)}) \cup
                                  {[todo EXCEPT !.completed = c.completed]}
                    /\ patched' = Forget(c.id) \cup
                                    {Patched(c.id, Flag(inflight[s].req))}
                    /\ Finish(s, PATCHThen([todo EXCEPT !.completed = c.completed]),
                              FALSE, AfterUpdate(c.id, inflight[s].req))
    /\ UNCHANGED <<nextId, clock, deleted, seen, outside>>

\* await prisma.todo.update(...) and the rest of PATCH
PATCHUpdate(s, fault) ==
    /\ Waiting(s, "update")
    /\ LET c == inflight[s].call
       IN  IF fault \/ ~Found(todos, c.id)
           THEN /\ Finish(s, PATCHCatch, fault, AfterUpdate(c.id, inflight[s].req))
                /\ patched' = Forget(c.id)
                /\ todos' = todos
           ELSE LET todo == update(RowOf(todos, c.id), c.completed, clock)
                IN  /\ todos' = (todos \ {RowOf(todos, c.id)}) \cup {todo}
                    /\ patched' = Forget(c.id) \cup
                                    {Patched(c.id, Flag(inflight[s].req))}
                    /\ Finish(s, PATCHThen(todo), FALSE,
                              AfterUpdate(c.id, inflight[s].req))
    /\ UNCHANGED <<nextId, clock, deleted, seen, outside>>

\* await prisma.todo.delete(...) and the rest of DELETE
DELETEDelete(s, fault) ==
    /\ Waiting(s, "delete")
    /\ LET c == inflight[s].call
       IN  /\ patched' = Forget(c.id)
           /\ IF fault \/ ~Found(todos, c.id)
              THEN /\ Finish(s, DELETECatch, fault, AfterDelete(c.id))
                   /\ UNCHANGED <<todos, deleted>>
              ELSE /\ todos' = todos \ {RowOf(todos, c.id)}
                   /\ deleted' = deleted \cup {c.id}
                   /\ Finish(s, DELETEThen, FALSE, AfterDelete(c.id))
    /\ UNCHANGED <<nextId, clock, seen, outside>>

\* time passes
Tick ==
    /\ clock < MaxClock
    /\ clock' = clock + 1
    /\ UNCHANGED <<todos, nextId, inflight, last, deleted, patched, seen, outside>>

ApiInit ==
    /\ todos = {}
    /\ nextId = 1
    /\ clock = 0
    /\ inflight = [s \in Slots |-> None]
    /\ last = None
    /\ deleted = {}
    /\ patched = {}
    /\ seen = <<>>

Init ==
    /\ ApiInit
    /\ Loaded
    /\ Unmounted

Next ==
    \/ \E s \in Slots : GET(s)
    \/ \E s \in Slots, body \in PostBodies : POST(s, body)
    \/ \E s \in Slots, id \in IdTexts, body \in PatchBodies : PATCH(s, id, body)
    \/ \E s \in Slots, id \in IdTexts : DELETE(s, id)
    \/ \E s \in Slots, fault \in BOOLEAN : GETFindMany(s, fault)
    \/ \E s \in Slots, fault \in BOOLEAN : POSTCreate(s, fault)
    \/ \E s \in Slots, fault \in BOOLEAN : PATCHUpdate(s, fault)
    \/ \E s \in Slots, fault \in BOOLEAN : DELETEDelete(s, fault)
    \/ Tick

Spec == Init /\ [][Next]_vars

\* the store answers every call it is given, with a result or an error
FairSpec ==
    /\ Spec
    /\ \A s \in Slots :
          /\ WF_vars(\E fault \in BOOLEAN : GETFindMany(s, fault))
          /\ WF_vars(\E fault \in BOOLEAN : POSTCreate(s, fault))
          /\ WF_vars(\E fault \in BOOLEAN : PATCHUpdate(s, fault))
          /\ WF_vars(\E fault \in BOOLEAN : DELETEDelete(s, fault))

\* the client module alone, in every run mode: the module is evaluated any
\* number of times and the handlers use what it exports
HandleInit ==
    /\ ApiInit
    /\ NODE_ENV \in Modes
    /\ Unloaded
    /\ Unmounted

HandleNext ==
    \/ Evaluate
    \/ \E h \in Handlers : Access(h)

HandleSpec == HandleInit /\ [][HandleNext]_vars

\* the handlers with requests overlapping: MaxOverlap requests may wait on
\* the store at once, and the store answers them in any order; the requests
\* are drawn from fewer bodies and ids than in Spec
MaxOverlap == 2

OverlapSlots == 1..MaxOverlap
OverlapPostBodies ==
    {Parsed(Obj(Undefined, Undefined)), Parsed(Obj(Str(<<" ", "a">>), Undefined))}
OverlapPatchBodies == {Parsed(Obj(Undefined, Bool(b))) : b \in BOOLEAN}
OverlapIdTexts == {<<"1">>, <<"2">>}

OverlapInit ==
    /\ todos = {}
    /\ nextId = 1
    /\ clock = 0
    /\ inflight = [s \in OverlapSlots |-> None]
    /\ last = None
    /\ deleted = {}
    /\ patched = {}
    /\ seen = <<>>
    /\ Loaded
    /\ Unmounted

OverlapNext ==
    \/ \E s \in OverlapSlots : GET(s)
    \/ \E s \in OverlapSlots, body \in OverlapPostBodies : POST(s, body)
    \/ \E s \in OverlapSlots, id \in OverlapIdTexts, body \in OverlapPatchBodies :
          PATCH(s, id, body)
    \/ \E s \in OverlapSlots, id \in OverlapIdTexts : DELETE(s, id)
    \/ \E s \in OverlapSlots, fault \in BOOLEAN : GETFindMany(s, fault)
    \/ \E s \in OverlapSlots, fault \in BOOLEAN : POSTCreate(s, fault)
    \/ \E s \in OverlapSlots, fault \in BOOLEAN : PATCHUpdate(s, fault)
    \/ \E s \in OverlapSlots, fault \in BOOLEAN : DELETEDelete(s, fault)
    \/ Tick

OverlapSpec == OverlapInit /\ [][OverlapNext]_vars

\* ------------------------------------------- one request at a time ----
\* what the code of the handler before its await comes to, by request
Plan(req) ==
    CASE req.kind = "GET" -> Try(GETBegin, GETCatch)
      [] req.kind = "POST" -> Try(POSTBegin(req.body), POSTCatch)
      [] req.kind = "PATCH" -> Try(PATCHBegin(req.id, req.body), PATCHCatch)
      [] req.kind = "DELETE" -> Try(DELETEBegin(req.id), DELETECatch)

Outcome(rows, counter, res) == [rows |-> rows, nextId |-> counter, res |-> res]

\* the handler of req run from its first line to its response with no other
\* request in between, on the table rows with its counter at the time now,
\* the store failing the call when fault: the table and the response it
\* may end with
Sequential(req, rows, counter, now, fault) ==
    LET r == Plan(req)
    IN  IF r.tag = "respond" THEN {Outcome(rows, counter, r.res)}
        ELSE LET c == r.call
             IN  CASE c.op = "findMany" ->
                        IF fault THEN {Outcome(rows, counter, GETCatch)}
                        ELSE {Outcome(rows, counter, GETThen(list)) :
                                 list \in findMany(rows)}
                   [] c.op = "create" ->
                        IF fault THEN {Outcome(rows, counter, POSTCatch)}
                        ELSE LET todo == create(counter, c.title, now)
                             IN  {Outcome(rows \cup {todo}, counter + 1,
                                          POSTThen(todo))}
                   [] c.op = "update" ->
                        IF fault \/ ~Found(rows, c.id)
                        THEN {Outcome(rows, counter, PATCHCatch)}
                        ELSE LET todo == update(RowOf(rows, c.id), c.completed, now)
                             IN  {Outcome((rows \ {RowOf(rows, c.id)}) \cup {todo},
                                          counter, PATCHThen(todo))}
                   [] c.op = "delete" ->
                        IF fault \/ ~Found(rows, c.id)
                        THEN {Outcome(rows, counter, DELETECatch)}
                        ELSE {Outcome(rows \ {RowOf(rows, c.id)}, counter,
                                      DELETEThen)}

\* ---------------------------------------- the Todo page at work -------
\* `/api/todos/${id}`: the id in decimal
DigitText(d) == CHOOSE c \in Digits : DigitValue(c) = d
RECURSIVE ToText(_)
ToText(n) ==
    IF n < 10 THEN <<DigitText(n)>>
    ELSE Append(ToText(n \div 10), DigitText(n % 10))

\* res.ok
Ok(res) == res.status \in 200..299

\* a call of fn that waits: on its timer ("animate"), on the server to take
\* its request ("sent"), or on the response res to arrive ("answered")
Run(fn, pc, req, res) ==
    [kind |-> "run", fn |-> fn, pc |-> pc, req |-> req, res |-> res]
NoRes == [status |-> 0]

At(k, pc) == runs[k] # None /\ runs[k].pc = pc
Start(k, r) == runs[k] = None /\ runs' = [runs EXCEPT ![k] = r]

\* fetch('/api/todos')
FetchList == Request("GET", NoId, NoBody)

\* what is typed into the input: blanks, or a title
TypedTexts == {<<" ">>, <<"a">>}

\* onChange of the input, which is disabled while loading
Type(text) ==
    /\ ~loading
    /\ text # newTodo
    /\ newTodo' = text
    /\ UNCHANGED <<pageTodos, loading, deletingId, runs, api, handle>>

\* addTodo up to its await fetch(POST); the button is disabled while loading
addTodo(k) ==
    /\ ~loading
    /\ trim(newTodo) # <<>>
    /\ nextId <= MaxId
    /\ loading' = TRUE
    /\ Start(k, Run("addTodo", "sent",
                     Request("POST", NoId, Parsed(Obj(Str(newTodo), Undefined))),
                     NoRes))
    /\ UNCHANGED <<pageTodos, newTodo, deletingId, api, handle>>

\* toggleTodo(todo.id, todo.completed) of a row shown, up to its await
\* fetch(PATCH)
toggleTodo(k, i) ==
    /\ i \in 1..Len(pageTodos)
    /\ Start(k, Run("toggleTodo", "sent",
                     Request("PATCH", ToText(pageTodos[i].id),
                             Parsed(Obj(Undefined, Bool(~pageTodos[i].completed)))),
                     NoRes))
    /\ UNCHANGED <<pageTodos, newTodo, loading, deletingId, api, handle>>

\* deleteTodo(todo.id) of a row shown, up to its await of the timer; the
\* button is disabled for the row being deleted
deleteTodo(k, i) ==
    /\ i \in 1..Len(pageTodos)
    /\ deletingId # pageTodos[i].id
    /\ deletingId' = pageTodos[i].id
    /\ Start(k, Run("deleteTodo", "animate",
                     Request("DELETE", ToText(pageTodos[i].id), NoBody), NoRes))
    /\ UNCHANGED <<pageTodos, newTodo, loading, api, handle>>

\* the 300 ms are over: deleteTodo up to its await fetch(DELETE)
deleteTodoFetch(k) ==
    /\ At(k, "animate")
    /\ runs' = [runs EXCEPT ![k].pc = "sent"]
    /\ UNCHANGED <<pageTodos, newTodo, loading, deletingId, api, handle>>

\* the server handles the request of run k; the store does not fail
Serve(k) ==
    /\ At(k, "sent")
    /\ \E o \in Sequential(runs[k].req, todos, nextId, clock, FALSE) :
          /\ todos' = o.rows
          /\ nextId' = o.nextId
          /\ runs' = [runs EXCEPT ![k].pc = "answered", ![k].res = o.res]
    /\ UNCHANGED <<clock, inflight, last, deleted, patched, seen,
                   pageTodos, newTodo, loading, deletingId, handle>>

\* finally of addTodo and of deleteTodo
Finally(k) ==
    /\ loading' = IF runs[k].fn = "addTodo" THEN FALSE ELSE loading
    /\ deletingId' = IF runs[k].fn = "deleteTodo" THEN NoDeleting ELSE deletingId
    /\ runs' = [runs EXCEPT ![k] = None]

\* the response to POST, PATCH or DELETE arrives: if (res.ok) the function
\* goes on to await fetchTodos(), and returns otherwise
MutationThen(k) ==
    /\ At(k, "answered")
    /\ runs[k].req.kind # "GET"
    /\ IF Ok(runs[k].res)
       THEN /\ newTodo' = IF runs[k].fn = "addTodo" THEN <<>> ELSE newTodo
            /\ runs' = [runs EXCEPT ![k] = Run(runs[k].fn, "sent", FetchList, NoRes)]
            /\ UNCHANGED <<loading, deletingId>>
       ELSE /\ Finally(k)
            /\ UNCHANGED newTodo
    /\ UNCHANGED <<pageTodos, api, handle>>

\* the response to GET arrives: fetchTodos sets todos if (res.ok) and
\* returns, and so does the function that awaited it
fetchTodosThen(k) ==
    /\ At(k, "answered")
    /\ runs[k].req.kind = "GET"
    /\ pageTodos' = IF Ok(runs[k].res) THEN runs[k].res.body.list ELSE pageTodos
    /\ Finally(k)
    /\ UNCHANGED <<newTodo, api, handle>>

\* time passes while the page is open
PageTick ==
    /\ clock < MaxClock
    /\ clock' = clock + 1
    /\ UNCHANGED <<todos, nextId, inflight, last, deleted, patched, seen,
                   page, handle>>

\* the page has mounted: useEffect has called fetchTodos
PageInit ==
    /\ ApiInit
    /\ Loaded
    /\ pageTodos = <<>>
    /\ newTodo = <<>>
    /\ loading = FALSE
    /\ deletingId = NoDeleting
    /\ runs = [k \in RunSlots |->
                 IF k = 1 THEN Run("fetchTodos", "sent", FetchList, NoRes) ELSE None]

PageNext ==
    \/ \E text \in TypedTexts : Type(text)
    \/ \E k \in RunSlots : addTodo(k)
    \/ \E k \in RunSlots, i \in 1..MaxId : toggleTodo(k, i)
    \/ \E k \in RunSlots, i \in 1..MaxId : deleteTodo(k, i)
    \/ \E k \in RunSlots : deleteTodoFetch(k)
    \/ \E k \in RunSlots : Serve(k)
    \/ \E k \in RunSlots : MutationThen(k)
    \/ \E k \in RunSlots : fetchTodosThen(k)
    \/ PageTick

\* one page, the only client of the handlers
PageSpec == PageInit /\ [][PageNext]_vars

\* ------------------------------------------------------------ claims ----
IsSent(kind) == last.kind = "sent" /\ last.req.kind = kind
Status == last.res.status

\* the title and the completed value a body carries, undefined when the
\* body is no JSON object or lacks the field
TitleOf(body) ==
    IF body.kind = "json" /\ body.value.type = "object"
    THEN body.value.title ELSE Undefined
CompletedOf(body) ==
    IF body.kind = "json" /\ body.value.type = "object"
    THEN body.value.completed ELSE Undefined

\* the title is absent, is not a string, or is empty once trimmed
BadTitle(body) ==
    LET t == TitleOf(body) IN t.type # "string" \/ trim(t.str) = <<>>

\* a text that is an integer from end to end: a sign at most, then digits
IsIntegerText(s) ==
    LET u == IF s # <<>> /\ Head(s) \in {"-", "+"} THEN Tail(s) ELSE s
    IN  u # <<>> /\ \A i \in 1..Len(u) : u[i] \in Digits

\* C1: a POST whose body is a JSON object with a title that is absent, not
\* a string or empty after trimming is answered 400 with { error } and
\* makes no store call; 201 is given only to a string that is non-empty
\* after trimming.
C1_CreateRejectsBadTitle ==
    (IsSent("POST") /\ last.req.body.kind = "json"
        /\ last.req.body.value.type = "object" /\ BadTitle(last.req.body)) =>
        (Status = 400 /\ last.res.body.type = "error" /\ last.calls = 0)

\* C2: no stored Todo has a title that is empty or only white space.
C2_NoBlankTitle == \A r \in todos : trim(r.title) # <<>>

\* C3 as stated: the list that follows a successful Create(t), t non-empty
\* after trimming, holds exactly one record whose title is trim(t) and
\* whose completed is false.
C3_OneRecordWithTitle ==
    (IsSent("GET") /\ Status = 200 /\ last.after # None
        /\ trim(last.after.text) # <<>>) =>
        LET list == last.res.body.list
        IN  Cardinality({i \in 1..Len(list) :
                            /\ list[i].title = trim(last.after.text)
                            /\ ~list[i].completed}) = 1

\* C3 amended: the list that follows a successful Create(t), t non-empty
\* after trimming, holds exactly one record with the id Create returned,
\* and that record has title trim(t) and completed false.
C3_RoundTrip ==
    (IsSent("GET") /\ Status = 200 /\ last.after # None
        /\ trim(last.after.text) # <<>>) =>
        LET list == last.res.body.list
            mine == {i \in 1..Len(list) : list[i].id = last.after.id}
        IN  /\ Cardinality(mine) = 1
            /\ \A i \in mine : /\ list[i].title = trim(last.after.text)
                               /\ list[i].completed = FALSE

\* C3 witness: a list right after the Create of a title that had to be
\* trimmed
C3_Witness ==
    /\ IsSent("GET") /\ Status = 200 /\ last.after # None
    /\ trim(last.after.text) # <<>>
    /\ trim(last.after.text) # last.after.text

\* C4: when Create(A) was answered before Create(B) was received, a List
\* that returns both returns B before A.
C4_NewestFirst ==
    (IsSent("GET") /\ Status = 200) =>
        LET list == last.res.body.list
        IN  \A i, j \in 1..Len(list) :
                list[j].id <= seen[list[i].id] => i < j

\* C5: a PATCH(i, b) whose store call follows, on id i, the successful
\* store call of another PATCH(i, b) is answered 200 with the record, and
\* after a successful PATCH(i, b) the record has completed = b for as long
\* as no other store call on i is made.
C5_IdempotentToggle ==
    /\ \A p \in patched :
          \E r \in todos : r.id = p.id /\ r.completed = p.completed
    /\ (IsSent("PATCH") /\ last.calls = 1 /\ ~last.fault /\ last.after.same) =>
          /\ Status = 200
          /\ \E r \in todos : /\ r.id = last.after.id
                              /\ r.completed = Flag(last.req)
                              /\ last.res.body = TodoBody(r)

\* C5 witness: the second of two PATCH(i, b) in a row has been answered
C5_Witness ==
    IsSent("PATCH") /\ last.calls = 1 /\ last.after.same /\ Status = 200

\* C6: once a DELETE has removed the row with id i, every PATCH and DELETE
\* on i is answered 500, no list holds a record with id i, and no row of
\* the table has id i again.
C6_DeletionFinal ==
    /\ deleted \cap Ids(todos) = {}
    /\ ((IsSent("PATCH") \/ IsSent("DELETE")) /\ last.calls = 1 /\ last.after.gone)
          => Status = 500
    /\ (IsSent("GET") /\ Status = 200) =>
          \A i \in 1..Len(last.res.body.list) :
              last.res.body.list[i].id \notin deleted

\* C6 witness: a PATCH on a deleted id has been answered, and a row has
\* been created since the deletion
C6_Witness ==
    /\ IsSent("PATCH") /\ last.calls = 1 /\ last.after.gone
    /\ \E r \in todos : \A d \in deleted : r.id > d

\* C7: a PATCH with an integer id and a JSON body whose completed value is
\* no boolean (a string, null, a missing field, a body that is no object)
\* is answered 400 and makes no store call.
C7_RejectsNonBoolean ==
    (IsSent("PATCH") /\ IsIntegerText(last.req.id) /\ last.req.body.kind = "json"
        /\ CompletedOf(last.req.body).type # "boolean") =>
        (Status = 400 /\ last.calls = 0)

\* C8: a DELETE, or a PATCH with a boolean completed, whose id text is not
\* an integer from end to end is answered 400 'Invalid todo ID' and makes
\* no store call.
C8_RejectsNonIntegerId ==
    (/\ \/ IsSent("DELETE")
        \/ IsSent("PATCH") /\ CompletedOf(last.req.body).type = "boolean"
     /\ ~IsIntegerText(last.req.id)) =>
        (last.res = Json(ErrorBody("Invalid todo ID"), 400) /\ last.calls = 0)

\* C9: a request answered 400 has made no store call, and the step that
\* answers it leaves the table as it was.
C9_FailFast ==
    /\ []((last.kind = "sent" /\ Status = 400) => last.calls = 0)
    /\ [][(last' # last /\ last'.kind = "sent" /\ last'.res.status = 400) =>
              (todos' = todos /\ nextId' = nextId)]_vars

\* C9 witness: a 400 has been sent while the table holds a row
C9_Witness ==
    last.kind = "sent" /\ Status = 400 /\ last.calls = 0 /\ todos # {}


\* a success payload with 200 or 201, or { error: string } with 400 or 500
WellFormed(res) ==
    \/ res.status \in {200, 201} /\ res.body.type \in {"todo", "list", "success"}
    \/ res.status \in {400, 500} /\ res.body.type = "error" /\ res.body.error \in STRING

\* C10: every handler call ends in one response, a well-formed success
\* payload or a well-formed { error } payload with 400 or 500: the response
\* sent is always well-formed, a request that leaves its wait on the store
\* is the one answered, and every request waiting on the store is answered.
C10_EveryCallAnswered ==
    /\ [](last.kind = "sent" => WellFormed(last.res))
    /\ [][\A s \in Slots :
            (inflight[s] # None /\ inflight'[s] = None) =>
                (last'.req = inflight[s].req /\ last'.calls = 1)]_vars
    /\ \A s \in Slots : (inflight[s] # None) ~> (inflight[s] = None)

\* C10 witness: the store failed a call and the handler answered 500
C10_Witness ==
    /\ last.kind = "sent" /\ last.fault
    /\ last.res = Json(ErrorBody("Failed to create todo"), 500)

\* the clients the handlers have used
UsedClients == {used[h] : h \in Handlers} \ {NoClient}

\* C11 as stated: over any sequence of evaluations of lib/prisma, in every
\* run mode, at most one client is ever constructed in the process and
\* every handler uses that one
C11_OneClientInEveryMode ==
    /\ built <= 1
    /\ Cardinality(UsedClients) <= 1

\* C11: outside production, over any sequence of evaluations of lib/prisma,
\* the client is constructed by the first evaluation only and every access
\* returns that client; in production every evaluation constructs a client
\* of its own, so there is one client as long as the module is evaluated
\* once
C11_OneClientOutsideProduction ==
    /\ NODE_ENV # "production" =>
          /\ built = (IF evals = 0 THEN 0 ELSE 1)
          /\ UsedClients \subseteq {1}
          /\ prisma \in {NoClient, 1}
    /\ NODE_ENV = "production" =>
          /\ built = evals
          /\ prisma = built
          /\ evals <= 1 => UsedClients \subseteq {1}

\* outside production the module has been evaluated again and again, and
\* two handlers have used the one client
C11_Witness ==
    /\ NODE_ENV = "development"
    /\ evals = MaxEvals
    /\ built = 1
    /\ used["GET"] = 1
    /\ used["PATCH"] = 1


\* slot s holds the store call of a PATCH or DELETE request whose id is an
\* integer text naming no row, and the call is answered in this step
\* without a fault of the store
AnswersMissing(s) ==
    /\ inflight[s] # None
    /\ inflight[s].req.kind \in {"PATCH", "DELETE"}
    /\ IsIntegerText(inflight[s].req.id)
    /\ parseInt(inflight[s].req.id).num \notin Ids(todos)
    /\ inflight'[s] = None
    /\ ~last'.fault

\* slot s holds the store call of a PATCH or DELETE request, and the store
\* fails it in this step
AnswersFault(s) ==
    /\ inflight[s] # None
    /\ inflight[s].req.kind \in {"PATCH", "DELETE"}
    /\ inflight'[s] = None
    /\ last'.fault

GenericError(kind) ==
    Json(ErrorBody(IF kind = "PATCH" THEN "Failed to update todo"
                   ELSE "Failed to delete todo"), 500)

\* C12: a PATCH or DELETE with an integer id (and a boolean completed) that
\* names no row is answered 500 with the error body a failure of the store
\* gets, and the table stays as it was
C12_MissingRowIs500 ==
    [][\A s \in DOMAIN inflight :
          /\ AnswersMissing(s) =>
                /\ last'.req = inflight[s].req
                /\ last'.res = GenericError(inflight[s].req.kind)
                /\ todos' = todos /\ nextId' = nextId
          /\ AnswersFault(s) =>
                last'.res = GenericError(inflight[s].req.kind)]_vars

\* a DELETE on an id that never had a row has been answered by the store
C12_Witness ==
    /\ IsSent("DELETE")
    /\ last.calls = 1
    /\ ~last.fault
    /\ last.after.id \notin Ids(todos)
    /\ last.after.id \notin deleted
    /\ Status = 500


\* slot s holds a store call that is answered in this step
Answers(s) == inflight[s] # None /\ inflight'[s] = None

\* the id a PATCH or DELETE request names, once the id check has let it
\* through
Named(req) == parseInt(req.id).num

\* C13: a PATCH answered 200 leaves the row it names with its id, title and
\* createdAt and with the flag asked for, a DELETE answered 200 removes the
\* row it names, both leave every other row as it was and add none, and no
\* step of a GET changes the table
C13_Frame ==
    [][\A s \in DOMAIN inflight :
          /\ Answers(s) /\ inflight[s].req.kind = "PATCH" /\ last'.res.status = 200 =>
                LET i == Named(inflight[s].req)
                IN  /\ \E old \in todos, new \in todos' :
                          /\ old.id = i /\ new.id = i
                          /\ new.title = old.title
                          /\ new.createdAt = old.createdAt
                          /\ new.completed = Flag(inflight[s].req)
                          /\ todos' \ {new} = todos \ {old}
                    /\ Cardinality(todos') = Cardinality(todos)
                    /\ nextId' = nextId
          /\ Answers(s) /\ inflight[s].req.kind = "DELETE" /\ last'.res.status = 200 =>
                LET i == Named(inflight[s].req)
                IN  /\ i \in Ids(todos)
                    /\ todos' = {r \in todos : r.id # i}
                    /\ nextId' = nextId
          /\ Answers(s) /\ inflight[s].req.kind = "GET" =>
                todos' = todos /\ nextId' = nextId
          /\ inflight[s] = None /\ inflight'[s] # None =>
                todos' = todos /\ nextId' = nextId]_vars

\* a PATCH has just been answered 200 with a second row in the table
C13_Witness ==
    /\ IsSent("PATCH")
    /\ Status = 200
    /\ last.calls = 1
    /\ Cardinality(todos) = 2
    /\ last.res.body.todo \in todos


\* C14: no two rows of the table share an id, a row keeps its id as long
\* as it is in the table, and a POST answered 201, with other POSTs waiting
\* on the store or not, returns an id that no row has and no row ever had
C14_UniqueIds ==
    [][/\ \A r1, r2 \in todos' : r1.id = r2.id => r1 = r2
       /\ \A r \in todos :
             r.id \in Ids(todos') =>
                \E r2 \in todos' : /\ r2.id = r.id
                                   /\ r2.title = r.title
                                   /\ r2.createdAt = r.createdAt
       /\ \A s \in DOMAIN inflight :
             Answers(s) =>
                IF inflight[s].req.kind = "POST" /\ last'.res.status = 201
                THEN LET id == last'.res.body.todo.id
                     IN  /\ id \notin Ids(todos) \cup deleted
                         /\ Ids(todos') = Ids(todos) \cup {id}
                         /\ Cardinality(todos') = Cardinality(todos) + 1
                ELSE Ids(todos') \subseteq Ids(todos)]_vars

\* two POSTs waited on the store at the same time and both were answered
\* 201: the POST that made row 2 was received before row 1 was made
C14_Witness ==
    /\ IsSent("POST")
    /\ Status = 201
    /\ Len(seen) = 2
    /\ seen[2] = 0
    /\ Cardinality(todos) = 2


\* C15: every row has updatedAt >= createdAt, a row keeps the createdAt its
\* POST gave it through every PATCH, and a PATCH answered 200 leaves the
\* row's updatedAt no earlier than it was
C15_Timestamps ==
    [][/\ \A r \in todos' : r.updatedAt >= r.createdAt
       /\ \A r \in todos, r2 \in todos' :
             r2.id = r.id => r2.createdAt = r.createdAt
       /\ \A s \in DOMAIN inflight :
             /\ Answers(s) /\ inflight[s].req.kind = "POST" /\ last'.res.status = 201 =>
                   /\ last'.res.body.todo.createdAt = clock
                   /\ last'.res.body.todo.updatedAt = clock
             /\ Answers(s) /\ inflight[s].req.kind = "PATCH" /\ last'.res.status = 200 =>
                   \E old \in todos :
                      /\ old.id = last'.res.body.todo.id
                      /\ last'.res.body.todo.createdAt = old.createdAt
                      /\ last'.res.body.todo.updatedAt >= old.updatedAt
                      /\ last'.res.body.todo \in todos']_vars

\* a PATCH has been answered 200 for a row made at an earlier time
C15_Witness ==
    /\ IsSent("PATCH")
    /\ Status = 200
    /\ last.res.body.todo \in todos
    /\ last.res.body.todo.updatedAt > last.res.body.todo.createdAt


\* C16: with requests overlapping, every store call made is the only one of
\* its request, and the table and the response it leaves are those of the
\* request's handler run at that moment from its first line with no other
\* request in between, so that a behaviour ends as the requests run one at
\* a time in the order of their store calls; a request that waits has
\* changed nothing, and a GET answered 200 lists every row of the table at
\* its store call once
C16_Serializable ==
    [][/\ \A s \in DOMAIN inflight :
             /\ Answers(s) =>
                   /\ last'.req = inflight[s].req
                   /\ last'.calls = 1
                   /\ Outcome(todos', nextId', last'.res) \in
                         Sequential(inflight[s].req, todos, nextId, clock, last'.fault)
                   /\ inflight[s].req.kind = "GET" /\ last'.res.status = 200 =>
                         LET list == last'.res.body.list
                         IN  /\ {list[i] : i \in 1..Len(list)} = todos
                             /\ Len(list) = Cardinality(todos)
             /\ inflight[s] = None /\ inflight'[s] # None =>
                   /\ todos' = todos /\ nextId' = nextId /\ last' = last
                   /\ Plan(inflight'[s].req) = Call(inflight'[s].call)
       /\ inflight' = inflight /\ last' # last =>
             /\ last'.calls = 0
             /\ Outcome(todos', nextId', last'.res) \in
                   Sequential(last'.req, todos, nextId, clock, FALSE)]_vars

\* a GET has been answered with row 1 alone while a POST received before
\* row 1 was made still waits on the store
C16_Witness ==
    /\ IsSent("GET")
    /\ Status = 200
    /\ Len(last.res.body.list) = 1
    /\ \E s \in DOMAIN inflight :
          /\ inflight[s] # None
          /\ inflight[s].req.kind = "POST"
          /\ inflight[s].seen = 0


\* no call of the page's functions is under way
Settled == \A k \in RunSlots : runs[k] = None

\* C17: once every call of the page's functions has returned, the list the
\* page shows is the table in the order GET gives it
C17_CacheConverges == Settled => pageTodos \in findMany(todos)

====
